---------------------------- MODULE Spec2Model ----------------------------
(***************************************************************************)
(* A model of librustdoc/clean/render_macro_matchers.rs: rendering of a    *)
(* macro matcher (a token tree) either verbatim from its source snippet or  *)
(* synthesised through the pretty printer with heuristic spacing.          *)
(*                                                                         *)
(* Text is a sequence of one-character strings.  A token tree is a record  *)
(*   [node, kind, sym, raw, delim, tts, span]                              *)
(* node = "Token": kind, sym (identifier text or doc-comment text) and raw *)
(* carry the token kind; node = "Delimited": delim and tts carry the group.*)
(***************************************************************************)
EXTENDS Integers, Sequences, FiniteSets, TLC

VARIABLES
    matcher,        \* the &TokenTree argument of render_macro_matcher
    env,            \* what the source map and the parser answer for its span
    pc,             \* position inside render_macro_matcher / snippet_equal_to_token
    snippet,        \* local `snippet` of snippet_equal_to_token (<<"None">> or <<"Some", text>>)
    reparsed_trees, \* local `reparsed_trees`
    diag,           \* diagnostics of the reparse: "none", "pending", "dropped", "cancelled"
    parser,         \* "none" before creation, "live" while in scope, "released" after
    events,         \* the operations invoked on the pretty printer, in order
    trace,          \* one record per sibling classified by print_tts (observation)
    visited,        \* the path of the node of every print_tt call, in order (observation)
    result          \* the returned String (<<"None">> until the function returns)

vars == <<matcher, env, pc, snippet, reparsed_trees, diag, parser, events, trace, visited, result>>

---------------------------------------------------------------------------
(* Data model                                                              *)

None == <<"None">>
Some(x) == <<"Some", x>>
IsSome(o) == o[1] = "Some"
Unwrap(o) == o[2]

\* rustc_span::Span, reduced to what the code can observe: a position and
\* the edition that decides which identifiers are keywords.
Span(lo, ed) == [lo |-> lo, ed |-> ed]

\* TokenTree::Token(token, _)
Token(kind, sym, raw, sp) ==
    [node |-> "Token", kind |-> kind, sym |-> sym, raw |-> raw,
     delim |-> "NoDelim", tts |-> <<>>, span |-> sp]

\* TokenTree::Delimited(span, delim, tts)
Delimited(delim, tts, sp) ==
    [node |-> "Delimited", kind |-> "NoKind", sym |-> <<>>, raw |-> FALSE,
     delim |-> delim, tts |-> tts, span |-> sp]

Delimiters == {"Parenthesis", "Bracket", "Brace"}

\* enum State of print_tts
States ==
    {"Start", "Dollar", "DollarIdent", "DollarIdentColon", "DollarParen",
     "DollarParenSep", "Pound", "PoundBang", "Ident", "Other"}

---------------------------------------------------------------------------
(* Keywords (rustc_span::symbol): Ident::is_used_keyword and               *)
(* Ident::is_unused_keyword, which depend on the edition of the span.      *)

UsedKeywords ==
    {<<"a","s">>, <<"b","r","e","a","k">>, <<"c","o","n","s","t">>,
     <<"c","o","n","t","i","n","u","e">>, <<"c","r","a","t","e">>, <<"e","l","s","e">>,
     <<"e","n","u","m">>, <<"e","x","t","e","r","n">>, <<"f","a","l","s","e">>,
     <<"f","n">>, <<"f","o","r">>, <<"i","f">>, <<"i","m","p","l">>, <<"i","n">>,
     <<"l","e","t">>, <<"l","o","o","p">>, <<"m","a","t","c","h">>, <<"m","o","d">>,
     <<"m","o","v","e">>, <<"m","u","t">>, <<"p","u","b">>, <<"r","e","f">>,
     <<"r","e","t","u","r","n">>, <<"s","e","l","f">>, <<"S","e","l","f">>,
     <<"s","t","a","t","i","c">>, <<"s","t","r","u","c","t">>, <<"s","u","p","e","r">>,
     <<"t","r","a","i","t">>, <<"t","r","u","e">>, <<"t","y","p","e">>,
     <<"u","n","s","a","f","e">>, <<"u","s","e">>, <<"w","h","e","r","e">>,
     <<"w","h","i","l","e">>}

UnusedKeywords ==
    {<<"a","b","s","t","r","a","c","t">>, <<"b","e","c","o","m","e">>, <<"b","o","x">>,
     <<"d","o">>, <<"f","i","n","a","l">>, <<"m","a","c","r","o">>,
     <<"o","v","e","r","r","i","d","e">>, <<"p","r","i","v">>,
     <<"t","y","p","e","o","f">>, <<"u","n","s","i","z","e","d">>,
     <<"v","i","r","t","u","a","l">>, <<"y","i","e","l","d">>}

\* keywords only from the 2018 edition on
UsedKeywords2018 == {<<"a","s","y","n","c">>, <<"a","w","a","i","t">>, <<"d","y","n">>}

UnusedKeywords2018 == {<<"t","r","y">>}

Editions == {2015, 2018}

is_used_keyword(symbol, span) ==
    \/ symbol \in UsedKeywords
    \/ symbol \in UsedKeywords2018 /\ span.ed >= 2018

is_unused_keyword(symbol, span) ==
    \/ symbol \in UnusedKeywords
    \/ symbol \in UnusedKeywords2018 /\ span.ed >= 2018

---------------------------------------------------------------------------
(* Keyword-adjacency policy                                                *)

\* the arms of `match symbol` that answer false
SpaceFreeKeywords ==
    {<<"f","a","l","s","e">>, <<"s","e","l","f">>, <<"S","e","l","f">>, <<"t","r","u","e">>,
     <<"f","n">>, <<"p","u","b">>, <<"a","w","a","i","t">>}

\* the policy without the `kw::Pub => false` arm
usually_needs_space_without_pub(symbol, span) ==
    LET is_keyword == is_used_keyword(symbol, span) \/ is_unused_keyword(symbol, span)
    IN  IF ~is_keyword THEN FALSE
        ELSE IF symbol \in SpaceFreeKeywords \ {<<"p","u","b">>} THEN FALSE
        ELSE TRUE

usually_needs_space_between_keyword_and_open_delim(symbol, span) ==
    LET is_keyword == is_used_keyword(symbol, span) \/ is_unused_keyword(symbol, span)
    IN  IF ~is_keyword THEN FALSE
        ELSE IF symbol \in SpaceFreeKeywords THEN FALSE
        ELSE TRUE

---------------------------------------------------------------------------
(* Token text: PrintState::token_to_string / token_kind_to_string          *)

TokenKinds ==
    {"Ident", "Colon", "Comma", "Semi", "Dollar", "Pound", "Not", "Question",
     "BinOpPlus", "BinOpStar", "BinOpSlash", "ModSep", "DocComment"}

token_to_string(token) ==
    CASE token.kind = "Ident"      -> (IF token.raw THEN <<"r", "#">> ELSE <<>>) \o token.sym
      [] token.kind = "Colon"      -> <<":">>
      [] token.kind = "Comma"      -> <<",">>
      [] token.kind = "Semi"       -> <<";">>
      [] token.kind = "Dollar"     -> <<"$">>
      [] token.kind = "Pound"      -> <<"#">>
      [] token.kind = "Not"        -> <<"!">>
      [] token.kind = "Question"   -> <<"?">>
      [] token.kind = "BinOpPlus"  -> <<"+">>
      [] token.kind = "BinOpStar"  -> <<"*">>
      [] token.kind = "BinOpSlash" -> <<"/">>
      [] token.kind = "ModSep"     -> <<":", ":">>
      [] token.kind = "DocComment" -> <<"/", "/", "/">> \o token.sym

OpenDelim(delim) ==
    CASE delim = "Parenthesis" -> <<"(">>
      [] delim = "Bracket"     -> <<"[">>
      [] delim = "Brace"       -> <<"{">>

CloseDelim(delim) ==
    CASE delim = "Parenthesis" -> <<")">>
      [] delim = "Bracket"     -> <<"]">>
      [] delim = "Brace"       -> <<"}">>

---------------------------------------------------------------------------
(* Pretty-printer operations, recorded as events                           *)

Ev(op, w, n, off) == [op |-> op, w |-> w, n |-> n, off |-> off]

cbox(indent) == Ev("cbox", <<>>, indent, 0)
ibox(indent) == Ev("ibox", <<>>, indent, 0)
word(w) == Ev("word", w, 0, 0)
space == Ev("space", <<>>, 0, 0)
zerobreak == Ev("zerobreak", <<>>, 0, 0)
hardbreak == Ev("hardbreak", <<>>, 0, 0)
break_offset_if_not_bol(n, off) == Ev("break_offset_if_not_bol", <<>>, n, off)
end == Ev("end", <<>>, 0, 0)
eof == Ev("eof", <<>>, 0, 0)

---------------------------------------------------------------------------
(* Spacing classifier: the `match` of print_tts                            *)

Cls(needs_space, next_state) == [needs_space |-> needs_space, next_state |-> next_state]

\* ClassifyToken without the `(DollarParenSep, Plus | Star)` arm
ClassifyTokenNoSepOp(state, tt) ==
    CASE state = "Dollar" /\ tt.kind = "Ident" -> Cls(FALSE, "DollarIdent")
      [] state = "DollarIdent" /\ tt.kind = "Colon" -> Cls(FALSE, "DollarIdentColon")
      [] state = "DollarIdentColon" /\ tt.kind = "Ident" -> Cls(FALSE, "Other")
      [] state = "DollarParen" /\ tt.kind \in {"BinOpPlus", "BinOpStar", "Question"} ->
            Cls(FALSE, "Other")
      [] state = "DollarParen" -> Cls(FALSE, "DollarParenSep")
      [] state = "Pound" /\ tt.kind = "Not" -> Cls(FALSE, "PoundBang")
      [] OTHER ->
            IF /\ tt.kind = "Ident"
               /\ tt.raw = FALSE
               /\ ~usually_needs_space_between_keyword_and_open_delim(tt.sym, tt.span)
            THEN Cls(TRUE, "Ident")
            ELSE IF tt.kind \in {"Comma", "Semi"} THEN Cls(FALSE, "Other")
            ELSE IF tt.kind = "Dollar" THEN Cls(TRUE, "Dollar")
            ELSE IF tt.kind = "Pound" THEN Cls(TRUE, "Pound")
            ELSE Cls(TRUE, "Other")

\* ClassifyToken without the `token::Comma | token::Semi` arm
ClassifyTokenNoSeparatorArm(state, tt) ==
    CASE state = "Dollar" /\ tt.kind = "Ident" -> Cls(FALSE, "DollarIdent")
      [] state = "DollarIdent" /\ tt.kind = "Colon" -> Cls(FALSE, "DollarIdentColon")
      [] state = "DollarIdentColon" /\ tt.kind = "Ident" -> Cls(FALSE, "Other")
      [] state = "DollarParen" /\ tt.kind \in {"BinOpPlus", "BinOpStar", "Question"} ->
            Cls(FALSE, "Other")
      [] state = "DollarParen" -> Cls(FALSE, "DollarParenSep")
      [] state = "DollarParenSep" /\ tt.kind \in {"BinOpPlus", "BinOpStar"} ->
            Cls(FALSE, "Other")
      [] state = "Pound" /\ tt.kind = "Not" -> Cls(FALSE, "PoundBang")
      [] OTHER ->
            IF /\ tt.kind = "Ident"
               /\ tt.raw = FALSE
               /\ ~usually_needs_space_between_keyword_and_open_delim(tt.sym, tt.span)
            THEN Cls(TRUE, "Ident")
            ELSE IF tt.kind = "Dollar" THEN Cls(TRUE, "Dollar")
            ELSE IF tt.kind = "Pound" THEN Cls(TRUE, "Pound")
            ELSE Cls(TRUE, "Other")

ClassifyToken(state, tt) ==
    CASE state = "Dollar" /\ tt.kind = "Ident" -> Cls(FALSE, "DollarIdent")
      [] state = "DollarIdent" /\ tt.kind = "Colon" -> Cls(FALSE, "DollarIdentColon")
      [] state = "DollarIdentColon" /\ tt.kind = "Ident" -> Cls(FALSE, "Other")
      [] state = "DollarParen" /\ tt.kind \in {"BinOpPlus", "BinOpStar", "Question"} ->
            Cls(FALSE, "Other")
      [] state = "DollarParen" -> Cls(FALSE, "DollarParenSep")
      [] state = "DollarParenSep" /\ tt.kind \in {"BinOpPlus", "BinOpStar"} ->
            Cls(FALSE, "Other")
      [] state = "Pound" /\ tt.kind = "Not" -> Cls(FALSE, "PoundBang")
      [] OTHER ->
            IF /\ tt.kind = "Ident"
               /\ tt.raw = FALSE
               /\ ~usually_needs_space_between_keyword_and_open_delim(tt.sym, tt.span)
            THEN Cls(TRUE, "Ident")
            ELSE IF tt.kind \in {"Comma", "Semi"} THEN Cls(FALSE, "Other")
            ELSE IF tt.kind = "Dollar" THEN Cls(TRUE, "Dollar")
            ELSE IF tt.kind = "Pound" THEN Cls(TRUE, "Pound")
            ELSE Cls(TRUE, "Other")

\* ClassifyDelimited without the `Ident` arm: `f (..)` like any other group
ClassifyDelimitedNoCall(state, delim) ==
    IF state = "Dollar" /\ delim = "Parenthesis" THEN Cls(FALSE, "DollarParen")
    ELSE IF state \in {"Pound", "PoundBang"} /\ delim = "Bracket" THEN Cls(FALSE, "Other")
    ELSE Cls(TRUE, "Other")

\* ClassifyDelimited with `Pound` alone in place of `Pound | PoundBang`
ClassifyDelimitedNoBang(state, delim) ==
    IF state = "Dollar" /\ delim = "Parenthesis" THEN Cls(FALSE, "DollarParen")
    ELSE IF state = "Pound" /\ delim = "Bracket" THEN Cls(FALSE, "Other")
    ELSE IF state = "Ident" /\ delim \in {"Parenthesis", "Bracket"} THEN Cls(FALSE, "Other")
    ELSE Cls(TRUE, "Other")

ClassifyDelimited(state, delim) ==
    IF state = "Dollar" /\ delim = "Parenthesis" THEN Cls(FALSE, "DollarParen")
    ELSE IF state \in {"Pound", "PoundBang"} /\ delim = "Bracket" THEN Cls(FALSE, "Other")
    ELSE IF state = "Ident" /\ delim \in {"Parenthesis", "Bracket"} THEN Cls(FALSE, "Other")
    ELSE Cls(TRUE, "Other")

Classify(state, tt) ==
    IF tt.node = "Token" THEN ClassifyToken(state, tt)
    ELSE ClassifyDelimited(state, tt.delim)

---------------------------------------------------------------------------
(* Tree renderer.  Each operator returns the log of what the call does, in *)
(* order: "ev" a printer operation, "cls" the classification of a sibling  *)
(* by print_tts, "vis" a call of print_tt (with the path of its node).     *)

LogEv(e) == [t |-> "ev", v |-> e]
LogCls(path, state, c) ==
    [t |-> "cls",
     v |-> [path |-> path, state |-> state, needs_space |-> c.needs_space,
            next_state |-> c.next_state,
            space |-> state # "Start" /\ c.needs_space]]
LogVis(path) == [t |-> "vis", v |-> path]

IsEv(x) == x.t = "ev"
IsCls(x) == x.t = "cls"
IsVis(x) == x.t = "vis"
Payload(log) == [i \in 1..Len(log) |-> log[i].v]
EventsOf(log) == Payload(SelectSeq(log, IsEv))
TraceOf(log) == Payload(SelectSeq(log, IsCls))
VisitedOf(log) == Payload(SelectSeq(log, IsVis))

RECURSIVE print_tt(_, _)
RECURSIVE print_tts_from(_, _, _, _)

\* the `for tt in tts.trees()` loop from sibling i on, with `state` as it stands
\* print_tts with one `state` shared by all sibling sequences: after a group,
\* the loop goes on from the state reached inside it
print_tts_from_shared(tts, i, state, path) ==
    IF i > Len(tts) THEN <<>>
    ELSE LET tt == tts[i]
             c == Classify(state, tt)
             log == print_tt(tt, path \o <<i>>)
             inner == TraceOf(log)
             carried == IF inner # <<>> THEN inner[Len(inner)].next_state ELSE c.next_state
         IN  <<LogCls(path \o <<i>>, state, c)>>
                \o (IF state # "Start" /\ c.needs_space THEN <<LogEv(space)>> ELSE <<>>)
                \o log
                \o print_tts_from(tts, i + 1, carried, path)

print_tts_from(tts, i, state, path) ==
    IF i > Len(tts) THEN <<>>
    ELSE LET tt == tts[i]
             c == Classify(state, tt)
         IN  <<LogCls(path \o <<i>>, state, c)>>
                \o (IF state # "Start" /\ c.needs_space THEN <<LogEv(space)>> ELSE <<>>)
                \o print_tt(tt, path \o <<i>>)
                \o print_tts_from(tts, i + 1, c.next_state, path)

\* print_tts with `state` initialised to Other
print_tts_start_other(tts, path) == print_tts_from(tts, 1, "Other", path)

\* print_tts with the loop starting at the second sibling
print_tts_skip_first(tts, path) == print_tts_from(tts, 2, "Start", path)

print_tts(tts, path) == print_tts_from(tts, 1, "Start", path)

\* print_tt without the hard break after a documentation comment
print_tt_no_hardbreak(tt, path) ==
    IF tt.node = "Token"
    THEN <<LogVis(path), LogEv(word(token_to_string(tt)))>>
    ELSE LET pad == IF tt.delim = "Brace" THEN <<LogEv(space)>> ELSE <<>>
         IN  <<LogVis(path), LogEv(word(OpenDelim(tt.delim)))>>
                \o (IF tt.tts # <<>> THEN pad \o print_tts(tt.tts, path) \o pad ELSE <<>>)
                \o <<LogEv(word(CloseDelim(tt.delim)))>>

\* print_tt without the `!tts.is_empty()` test
print_tt_pad_empty(tt, path) ==
    IF tt.node = "Token"
    THEN <<LogVis(path), LogEv(word(token_to_string(tt)))>>
            \o (IF tt.kind = "DocComment" THEN <<LogEv(hardbreak)>> ELSE <<>>)
    ELSE LET pad == IF tt.delim = "Brace" THEN <<LogEv(space)>> ELSE <<>>
         IN  <<LogVis(path), LogEv(word(OpenDelim(tt.delim)))>>
                \o pad \o print_tts(tt.tts, path) \o pad
                \o <<LogEv(word(CloseDelim(tt.delim)))>>

\* print_tt padding a brace group with non-breaking spaces
print_tt_nbsp(tt, path) ==
    IF tt.node = "Token"
    THEN <<LogVis(path), LogEv(word(token_to_string(tt)))>>
            \o (IF tt.kind = "DocComment" THEN <<LogEv(hardbreak)>> ELSE <<>>)
    ELSE LET pad == IF tt.delim = "Brace" THEN <<LogEv(Ev("nbsp", <<>>, 0, 0))>> ELSE <<>>
         IN  <<LogVis(path), LogEv(word(OpenDelim(tt.delim)))>>
                \o (IF tt.tts # <<>> THEN pad \o print_tts(tt.tts, path) \o pad ELSE <<>>)
                \o <<LogEv(word(CloseDelim(tt.delim)))>>

print_tt(tt, path) ==
    IF tt.node = "Token"
    THEN <<LogVis(path), LogEv(word(token_to_string(tt)))>>
            \o (IF tt.kind = "DocComment" THEN <<LogEv(hardbreak)>> ELSE <<>>)
    ELSE LET pad == IF tt.delim = "Brace" THEN <<LogEv(space)>> ELSE <<>>
         IN  <<LogVis(path), LogEv(word(OpenDelim(tt.delim)))>>
                \o (IF tt.tts # <<>> THEN pad \o print_tts(tt.tts, path) \o pad ELSE <<>>)
                \o <<LogEv(word(CloseDelim(tt.delim)))>>

---------------------------------------------------------------------------
(* Printer::s.eof(): the text the recorded operations lay out.  The inputs *)
(* of the model are short, so every box fits its line unless it holds a    *)
(* hard break; a box holding one breaks, and the breaks of the consistent  *)
(* outer box become newlines.  Indentation after a newline is left out.    *)

RECURSIVE HasHardbreak(_)
HasHardbreak(evs) ==
    IF evs = <<>> THEN FALSE
    ELSE Head(evs).op = "hardbreak" \/ HasHardbreak(Tail(evs))

RECURSIVE LayOut(_, _)
LayOut(evs, broken) ==
    IF evs = <<>> THEN <<>>
    ELSE LET e == Head(evs)
             here == CASE e.op = "word" -> e.w
                       [] e.op = "space" -> <<" ">>
                       [] e.op = "hardbreak" -> <<"\n">>
                       [] e.op \in {"zerobreak", "break_offset_if_not_bol"} ->
                             IF broken THEN <<"\n">> ELSE <<>>
                       [] OTHER -> <<>>
         IN  here \o LayOut(Tail(evs), broken)

s_eof(evs) == LayOut(evs, HasHardbreak(evs))

---------------------------------------------------------------------------
(* TokenTree::eq_unspanned: equality of kinds, payloads, nesting and       *)
(* delimiters; spans are not compared.                                     *)

RECURSIVE eq_unspanned(_, _)
eq_unspanned(a, b) ==
    IF a.node = "Token" /\ b.node = "Token"
    THEN a.kind = b.kind /\ a.sym = b.sym /\ a.raw = b.raw
    ELSE IF a.node = "Delimited" /\ b.node = "Delimited"
    THEN /\ a.delim = b.delim
         /\ Len(a.tts) = Len(b.tts)
         /\ \A i \in 1..Len(a.tts) : eq_unspanned(a.tts[i], b.tts[i])
    ELSE FALSE

---------------------------------------------------------------------------
(* The tokenizer/parser pair: text -> token trees.  Whitespace and plain   *)
(* comments are skipped, identifiers take the longest match, `///` starts  *)
(* a documentation comment that runs to the end of the line, `/*` starts a *)
(* (nesting) block comment, `::` is one token.                             *)

Lower ==
    {"a","b","c","d","e","f","g","h","i","j","k","l","m",
     "n","o","p","q","r","s","t","u","v","w","x","y","z"}
Upper ==
    {"A","B","C","D","E","F","G","H","I","J","K","L","M",
     "N","O","P","Q","R","S","T","U","V","W","X","Y","Z"}
IdentStart == Lower \cup Upper \cup {"_"}
IdentContinue == IdentStart \cup {"0","1","2","3","4","5","6","7","8","9"}
Whitespace == {" ", "\n"}

PunctKind(c) ==
    CASE c = "," -> "Comma"
      [] c = ";" -> "Semi"
      [] c = "$" -> "Dollar"
      [] c = "#" -> "Pound"
      [] c = "!" -> "Not"
      [] c = "?" -> "Question"
      [] c = "+" -> "BinOpPlus"
      [] c = "*" -> "BinOpStar"
      [] OTHER -> "Unknown"

DelimOfOpen(c) ==
    CASE c = "(" -> "Parenthesis" [] c = "[" -> "Bracket" [] c = "{" -> "Brace"
      [] OTHER -> "NoDelim"

DelimOfClose(c) ==
    CASE c = ")" -> "Parenthesis" [] c = "]" -> "Bracket" [] c = "}" -> "Brace"
      [] OTHER -> "NoDelim"

At(text, i) == IF i <= Len(text) THEN text[i] ELSE "EOF"

\* first position from i on that is not an identifier character
RECURSIVE IdentEnd(_, _)
IdentEnd(text, i) ==
    IF At(text, i) \in IdentContinue THEN IdentEnd(text, i + 1) ELSE i

\* position of the newline that ends the line of position i (Len + 1 at the end)
RECURSIVE LineEnd(_, _)
LineEnd(text, i) ==
    IF i > Len(text) \/ text[i] = "\n" THEN i ELSE LineEnd(text, i + 1)

\* position after the block comment whose body starts at i with `depth` open
\* comments; 0 when the text ends before it is closed
RECURSIVE BlockCommentEnd(_, _, _)
BlockCommentEnd(text, i, depth) ==
    IF i > Len(text) THEN 0
    ELSE IF At(text, i) = "/" /\ At(text, i + 1) = "*"
    THEN BlockCommentEnd(text, i + 2, depth + 1)
    ELSE IF At(text, i) = "*" /\ At(text, i + 1) = "/"
    THEN IF depth = 1 THEN i + 2 ELSE BlockCommentEnd(text, i + 2, depth - 1)
    ELSE BlockCommentEnd(text, i + 1, depth)

\* the lexeme that starts at position i: what it is and where the next starts
Lexeme(what, item, next) == [what |-> what, item |-> item, next |-> next]

NextLexeme(text, i, ed) ==
    LET c == At(text, i)
        c1 == At(text, i + 1)
        c2 == At(text, i + 2)
        c3 == At(text, i + 3)
        sp == Span(i, ed)
        tok(kind, sym, raw, next) == Lexeme("item", Token(kind, sym, raw, sp), next)
    IN  CASE c \in Whitespace -> Lexeme("skip", <<>>, i + 1)
          [] c = "/" /\ c1 = "/" /\ c2 = "/" /\ c3 # "/" ->
                tok("DocComment", SubSeq(text, i + 3, LineEnd(text, i) - 1), FALSE,
                    LineEnd(text, i))
          [] c = "/" /\ c1 = "/" /\ ~(c2 = "/" /\ c3 # "/") ->
                Lexeme("skip", <<>>, LineEnd(text, i))
          [] c = "/" /\ c1 = "*" ->
                IF BlockCommentEnd(text, i + 2, 1) = 0 THEN Lexeme("error", <<>>, i)
                ELSE Lexeme("skip", <<>>, BlockCommentEnd(text, i + 2, 1))
          [] c = "/" /\ c1 \notin {"/", "*"} -> tok("BinOpSlash", <<>>, FALSE, i + 1)
          [] c = ":" /\ c1 = ":" -> tok("ModSep", <<>>, FALSE, i + 2)
          [] c = ":" /\ c1 # ":" -> tok("Colon", <<>>, FALSE, i + 1)
          [] c = "r" /\ c1 = "#" /\ c2 \in IdentStart ->
                tok("Ident", SubSeq(text, i + 2, IdentEnd(text, i + 2) - 1), TRUE,
                    IdentEnd(text, i + 2))
          [] c \in IdentStart /\ ~(c = "r" /\ c1 = "#" /\ c2 \in IdentStart) ->
                tok("Ident", SubSeq(text, i, IdentEnd(text, i) - 1), FALSE, IdentEnd(text, i))
          [] PunctKind(c) # "Unknown" -> tok(PunctKind(c), <<>>, FALSE, i + 1)
          [] DelimOfOpen(c) # "NoDelim" ->
                Lexeme("item", [node |-> "Open", delim |-> DelimOfOpen(c), span |-> sp], i + 1)
          [] DelimOfClose(c) # "NoDelim" ->
                Lexeme("item", [node |-> "Close", delim |-> DelimOfClose(c), span |-> sp], i + 1)
          [] OTHER -> Lexeme("error", <<>>, i)

\* the flat lexemes from position i on: tokens and delimiter marks; a lexical
\* error ends the sequence with an "Error" mark
RECURSIVE Lexemes(_, _, _)
Lexemes(text, i, ed) ==
    IF i > Len(text) THEN <<>>
    ELSE LET lx == NextLexeme(text, i, ed)
         IN  CASE lx.what = "error" -> <<[node |-> "Error"]>>
               [] lx.what = "skip" -> Lexemes(text, lx.next, ed)
               [] lx.what = "item" -> <<lx.item>> \o Lexemes(text, lx.next, ed)

\* the token trees of items[i..]; stack holds the groups that are still open,
\* innermost last, below them the top level
Frame(delim, span, trees) == [delim |-> delim, span |-> span, trees |-> trees]

Push(stack, tt) ==
    [stack EXCEPT ![Len(stack)].trees = Append(stack[Len(stack)].trees, tt)]

RECURSIVE TreesFrom(_, _, _)
TreesFrom(items, i, stack) ==
    IF i > Len(items)
    THEN [ok |-> Len(stack) = 1, trees |-> stack[1].trees]
    ELSE LET it == items[i]
             top == stack[Len(stack)]
         IN  CASE it.node = "Error" -> [ok |-> FALSE, trees |-> <<>>]
               [] it.node = "Open" ->
                     TreesFrom(items, i + 1, Append(stack, Frame(it.delim, it.span, <<>>)))
               [] it.node = "Close" ->
                     IF Len(stack) = 1 \/ top.delim # it.delim
                     THEN [ok |-> FALSE, trees |-> <<>>]
                     ELSE TreesFrom(items, i + 1,
                                    Push(SubSeq(stack, 1, Len(stack) - 1),
                                         Delimited(top.delim, top.trees, top.span)))
               [] it.node = "Token" -> TreesFrom(items, i + 1, Push(stack, it))

\* [ok, trees]: the token trees of a text, or a lexical error
Lex(text, ed) ==
    LET r == TreesFrom(Lexemes(text, 1, ed), 1, <<Frame("NoDelim", Span(0, ed), <<>>)>>)
    IN  [ok |-> r.ok, trees |-> IF r.ok THEN r.trees ELSE <<>>]

---------------------------------------------------------------------------
(* Inputs: the matchers render_macro_matcher is called with, and what the  *)
(* source map and the parser answer for the matcher's span.                *)

MaxTail == 1
MaxDepth == 2

Sp(ed) == Span(0, ed)
Id(sym, ed) == Token("Ident", sym, FALSE, Sp(ed))
RawId(sym, ed) == Token("Ident", sym, TRUE, Sp(ed))
Punct(kind, ed) == Token(kind, <<>>, FALSE, Sp(ed))
Doc(text, ed) == Token("DocComment", text, FALSE, Sp(ed))
Group(delim, tts, ed) == Delimited(delim, tts, Sp(ed))

SeqsUpTo(S, n) == UNION {[1..k -> S] : k \in 0..n}

PunctKinds ==
    {"Colon", "Comma", "Semi", "Dollar", "Pound", "Not", "Question",
     "BinOpPlus", "BinOpStar", "BinOpSlash"}

\* one token of every kind the classifier tells apart
TokenAtoms(ed) ==
    {Id(<<"f">>, ed), Id(<<"f","n">>, ed), Id(<<"f","o","r">>, ed),
     RawId(<<"f">>, ed), RawId(<<"f","o","r">>, ed), Doc(<<" ","*","/">>, ed)}
    \cup {Punct(k, ed) : k \in PunctKinds}

Atoms(ed) == TokenAtoms(ed) \cup {Group(d, <<>>, ed) : d \in Delimiters}

SmallAtoms(ed) ==
    {Id(<<"f">>, ed), Punct("Comma", ed), Punct("BinOpStar", ed),
     Group("Parenthesis", <<>>, ed), Doc(<<" ","*","/">>, ed)}

\* a shortest sibling prefix after which print_tts is in `state`
Reach(state, ed) ==
    CASE state = "Start" -> <<>>
      [] state = "Dollar" -> <<Punct("Dollar", ed)>>
      [] state = "DollarIdent" -> <<Punct("Dollar", ed), Id(<<"f">>, ed)>>
      [] state = "DollarIdentColon" ->
            <<Punct("Dollar", ed), Id(<<"f">>, ed), Punct("Colon", ed)>>
      [] state = "DollarParen" -> <<Punct("Dollar", ed), Group("Parenthesis", <<>>, ed)>>
      [] state = "DollarParenSep" ->
            <<Punct("Dollar", ed), Group("Parenthesis", <<>>, ed), Punct("Comma", ed)>>
      [] state = "Pound" -> <<Punct("Pound", ed)>>
      [] state = "PoundBang" -> <<Punct("Pound", ed), Punct("Not", ed)>>
      [] state = "Ident" -> <<Id(<<"f">>, ed)>>
      [] state = "Other" -> <<Punct("Comma", ed)>>

\* the idioms of macro matchers: metavariables, attributes, calls, repetitions
Units(ed) ==
    LET dollar == Punct("Dollar", ed)
        pound == Punct("Pound", ed)
        f == Id(<<"f">>, ed)
        group(d) == Group(d, <<f>>, ed)
    IN  {<<>>, <<dollar, f>>, <<dollar, f, Punct("Colon", ed), f>>,
         <<pound, group("Bracket")>>, <<pound, Punct("Not", ed), group("Bracket")>>}
        \cup {<<i, group(d)>> : i \in {f, Id(<<"f","n">>, ed), Id(<<"f","o","r">>, ed),
                                        RawId(<<"f">>, ed)},
                                d \in Delimiters}
        \cup {<<dollar, group("Parenthesis"), op>> :
                 op \in {Punct("BinOpPlus", ed), Punct("BinOpStar", ed), Punct("Question", ed)}}
        \cup {<<dollar, group("Parenthesis"), sep, op>> :
                 sep \in TokenAtoms(ed),
                 op \in {Punct("BinOpPlus", ed), Punct("BinOpStar", ed)}}

\* sibling sequences that meet every node kind in every state, and every idiom
\* after every state
ClassifierSeqs(ed) ==
    {Reach(s, ed) \o t : s \in States, t \in SeqsUpTo(Atoms(ed), MaxTail)}
    \cup {Reach(s, ed) \o u \o t :
             s \in States, u \in Units(ed), t \in SeqsUpTo(SmallAtoms(ed), MaxTail)}

\* every keyword and a non-keyword, in every state, before every group kind
KeywordSeqs(ed) ==
    {Reach(s, ed) \o <<Id(sym, ed), Group(d, <<>>, ed)>> :
        s \in States,
        sym \in UsedKeywords \cup UnusedKeywords \cup UsedKeywords2018
                   \cup UnusedKeywords2018 \cup {<<"f">>, <<"_">>},
        d \in Delimiters}

\* what surrounds a nested group at each level: before, delimiter, after
Surroundings(ed) ==
    {<<<<>>, d, <<>>>> : d \in Delimiters}
    \cup {<<<<Id(<<"f">>, ed)>>, "Parenthesis", <<Id(<<"f">>, ed)>>>>,
          <<<<Punct("Dollar", ed)>>, "Parenthesis", <<Punct("BinOpStar", ed)>>>>,
          <<<<Punct("Comma", ed)>>, "Brace", <<Id(<<"f">>, ed)>>>>}

\* groups nested `depth` deep, with siblings before and after at every level
RECURSIVE NestedSeqs(_, _)
NestedSeqs(depth, ed) ==
    IF depth = 0
    THEN {<<>>, <<Id(<<"f">>, ed)>>, <<Punct("Dollar", ed), Id(<<"f">>, ed)>>,
          <<Doc(<<" ","*","/">>, ed), Id(<<"f">>, ed)>>}
    ELSE {s[1] \o <<Group(s[2], inner, ed)>> \o s[3] :
             s \in Surroundings(ed), inner \in NestedSeqs(depth - 1, ed)}

\* matchers whose span maps to source text of one kind or another
VerifyMatchers ==
    TokenAtoms(2018)
    \cup {Group(d, tts, 2018) :
             d \in Delimiters,
             tts \in {<<>>, <<Id(<<"f">>, 2018)>>,
                      <<Punct("Dollar", 2018), Id(<<"f">>, 2018)>>,
                      <<Doc(<<" ","*","/">>, 2018)>>,
                      <<Id(<<"f">>, 2018), Group("Brace", <<Id(<<"f">>, 2018)>>, 2018)>>}}

Matchers ==
    VerifyMatchers
    \cup {Group("Parenthesis", tts, 2018) : tts \in ClassifierSeqs(2018)}
    \cup UNION {{Group("Parenthesis", tts, ed) : tts \in KeywordSeqs(ed)} : ed \in Editions}
    \cup UNION {{Group(d, tts, 2018) : tts \in NestedSeqs(k, 2018), d \in Delimiters} :
                   k \in 1..MaxDepth}

\* a source text of a tree: every token on its own, separated by blanks, a
\* documentation comment ending its line
RECURSIVE SourceOf(_)
RECURSIVE SourceOfTts(_, _)
SourceOfTts(tts, i) ==
    IF i > Len(tts) THEN <<>>
    ELSE SourceOf(tts[i]) \o SourceOfTts(tts, i + 1)

SourceOf(tt) ==
    IF tt.node = "Token"
    THEN token_to_string(tt) \o (IF tt.kind = "DocComment" THEN <<"\n">> ELSE <<" ">>)
    ELSE OpenDelim(tt.delim) \o <<" ">> \o SourceOfTts(tt.tts, 1)
            \o CloseDelim(tt.delim) \o <<" ">>

\* env: what span_to_snippet answers (lookup), whether the parser can be
\* created (new_parser) and whether parse_all_token_trees succeeds (parse)
Env(lookup, new_parser, parse) ==
    [lookup |-> lookup, new_parser |-> new_parser, parse |-> parse, ed |-> 2018]

NoSource == Env(None, "ok", "ok")

Snippets(m) ==
    {SourceOf(m),                                    \* the matcher's own source
     SourceOf(m) \o SourceOf(m),                     \* a span that is too wide
     <<" ">>,                                        \* an empty span
     SourceOf(Group("Bracket", <<m>>, 2018)),        \* the text of something else
     <<"(", " ">>}                                   \* no token tree at all

EnvsFor(m) ==
    IF m \in VerifyMatchers
    THEN {NoSource}
         \cup {Env(Some(t), "ok", "ok") : t \in Snippets(m)}
         \cup {Env(Some(SourceOf(m)), "err", "ok"), Env(Some(SourceOf(m)), "ok", "err")}
    ELSE {NoSource}

---------------------------------------------------------------------------
(* The state machine                                                       *)

Init ==
    /\ matcher \in Matchers
    /\ env \in EnvsFor(matcher)
    /\ pc = "entry"
    /\ snippet = None
    /\ reparsed_trees = <<>>
    /\ diag = "none"
    /\ parser = "none"
    /\ events = <<>>
    /\ trace = <<>>
    /\ visited = <<>>
    /\ result = None

\* snippet_equal_to_token: source_map.span_to_snippet(span).ok()?
SpanToSnippet ==
    /\ pc = "entry"
    /\ snippet' = env.lookup
    /\ pc' = IF IsSome(env.lookup) THEN "new_parser" ELSE "synth"
    /\ UNCHANGED <<matcher, env, reparsed_trees, diag, parser, events, trace, visited, result>>

\* snippet_equal_to_token: ParseSess::new and maybe_new_parser_from_source_str;
\* the text is tokenized here, and an error's diagnostics are dropped
NewParser ==
    /\ pc = "new_parser"
    /\ LET created == env.new_parser = "ok" /\ Lex(Unwrap(snippet), env.ed).ok
       IN  /\ parser' = IF created THEN "live" ELSE "released"
           /\ diag' = IF created THEN diag ELSE "dropped"
           /\ pc' = IF created THEN "parse" ELSE "synth"
    /\ UNCHANGED <<matcher, env, snippet, reparsed_trees, events, trace, visited, result>>

\* ParseAllTokenTrees returning on Err without `diagnostic.cancel()`
ParseAllTokenTreesNoCancel ==
    /\ pc = "parse"
    /\ LET parsed == env.parse = "ok"
       IN  /\ reparsed_trees' =
                 IF parsed THEN Lex(Unwrap(snippet), env.ed).trees ELSE reparsed_trees
           /\ diag' = IF parsed THEN diag ELSE "pending"
           /\ parser' = IF parsed THEN parser ELSE "released"
           /\ pc' = IF parsed THEN "check_len" ELSE "synth"
    /\ UNCHANGED <<matcher, env, snippet, events, trace, visited, result>>

\* snippet_equal_to_token: parser.parse_all_token_trees(); an error is cancelled
ParseAllTokenTrees ==
    /\ pc = "parse"
    /\ LET parsed == env.parse = "ok"
       IN  /\ reparsed_trees' =
                 IF parsed THEN Lex(Unwrap(snippet), env.ed).trees ELSE reparsed_trees
           /\ diag' = IF parsed THEN diag ELSE "cancelled"
           /\ parser' = IF parsed THEN parser ELSE "released"
           /\ pc' = IF parsed THEN "check_len" ELSE "synth"
    /\ UNCHANGED <<matcher, env, snippet, events, trace, visited, result>>

\* CheckLen with the test `reparsed_trees.len() == 0` in place of `!= 1`
CheckLenAtLeastOne ==
    /\ pc = "check_len"
    /\ pc' = IF Len(reparsed_trees) = 0 THEN "synth" ELSE "compare"
    /\ parser' = IF Len(reparsed_trees) = 0 THEN "released" ELSE parser
    /\ UNCHANGED <<matcher, env, snippet, reparsed_trees, diag, events, trace, visited, result>>

\* snippet_equal_to_token: if reparsed_trees.len() != 1 { return None; }
CheckLen ==
    /\ pc = "check_len"
    /\ pc' = IF Len(reparsed_trees) # 1 THEN "synth" ELSE "compare"
    /\ parser' = IF Len(reparsed_trees) # 1 THEN "released" ELSE parser
    /\ UNCHANGED <<matcher, env, snippet, reparsed_trees, diag, events, trace, visited, result>>

\* CompareReparsed with `==` (spans compared) in place of eq_unspanned
CompareReparsedSpanned ==
    /\ pc = "compare"
    /\ result' = IF reparsed_trees[1] = matcher THEN snippet ELSE result
    /\ pc' = IF reparsed_trees[1] = matcher THEN "done" ELSE "synth"
    /\ parser' = "released"
    /\ reparsed_trees' = <<>>
    /\ UNCHANGED <<matcher, env, snippet, diag, events, trace, visited>>

\* snippet_equal_to_token: reparsed_tree.eq_unspanned(matcher), and the
\* `return snippet` of render_macro_matcher on Some
CompareReparsed ==
    /\ pc = "compare"
    /\ result' = IF eq_unspanned(reparsed_trees[1], matcher) THEN snippet ELSE result
    /\ pc' = IF eq_unspanned(reparsed_trees[1], matcher) THEN "done" ELSE "synth"
    /\ parser' = "released"
    /\ reparsed_trees' = <<>>
    /\ UNCHANGED <<matcher, env, snippet, diag, events, trace, visited>>

\* render_macro_matcher: Printer::new(), cbox(8), word("("), zerobreak(), ibox(0)
OpenBoxes ==
    /\ pc = "synth"
    /\ events' = <<cbox(8), word(<<"(">>), zerobreak, ibox(0)>>
    /\ pc' = "body"
    /\ UNCHANGED <<matcher, env, snippet, reparsed_trees, diag, parser, trace, visited, result>>

\* Dispatch handing a root group to print_tt like any nested group
DispatchWholeTree(m) == print_tt(m, <<>>)

\* what `match matcher` appends
Dispatch(m) ==
    IF m.node = "Delimited" THEN print_tts(m.tts, <<>>) ELSE print_tt(m, <<>>)

\* render_macro_matcher: match matcher { Delimited => print_tts, Token => print_tt }
PrintBody ==
    /\ pc = "body"
    /\ events' = events \o EventsOf(Dispatch(matcher))
    /\ trace' = trace \o TraceOf(Dispatch(matcher))
    /\ visited' = visited \o VisitedOf(Dispatch(matcher))
    /\ pc' = "close"
    /\ UNCHANGED <<matcher, env, snippet, reparsed_trees, diag, parser, result>>

\* CloseBoxes without the last `printer.end()`
CloseBoxesInnerOnly ==
    /\ pc = "close"
    /\ events' = events \o <<end, break_offset_if_not_bol(0, -4), word(<<")">>)>>
    /\ pc' = "eof"
    /\ UNCHANGED <<matcher, env, snippet, reparsed_trees, diag, parser, trace, visited, result>>

\* render_macro_matcher: end(), break_offset_if_not_bol(0, -4), word(")"), end()
CloseBoxes ==
    /\ pc = "close"
    /\ events' = events \o <<end, break_offset_if_not_bol(0, -4), word(<<")">>), end>>
    /\ pc' = "eof"
    /\ UNCHANGED <<matcher, env, snippet, reparsed_trees, diag, parser, trace, visited, result>>

\* render_macro_matcher: printer.s.eof()
Finish ==
    /\ pc = "eof"
    /\ events' = events \o <<eof>>
    /\ result' = Some(s_eof(events))
    /\ pc' = "done"
    /\ UNCHANGED <<matcher, env, snippet, reparsed_trees, diag, parser, trace, visited>>

Next ==
    \/ SpanToSnippet
    \/ NewParser
    \/ ParseAllTokenTrees
    \/ CheckLen
    \/ CompareReparsed
    \/ OpenBoxes
    \/ PrintBody
    \/ CloseBoxes
    \/ Finish

Spec == Init /\ [][Next]_vars

---------------------------------------------------------------------------
(* Properties                                                              *)

Range(seq) == {seq[i] : i \in 1..Len(seq)}

\* the node of tree m at `path` (child indices from the root)
RECURSIVE NodeAt(_, _)
NodeAt(m, path) ==
    IF path = <<>> THEN m ELSE NodeAt(m.tts[Head(path)], Tail(path))

\* the paths of all nodes strictly below m
RECURSIVE PathsBelow(_, _)
PathsBelow(m, path) ==
    UNION {{path \o <<i>>} \cup PathsBelow(m.tts[i], path \o <<i>>) : i \in 1..Len(m.tts)}

\* the nodes a synthesis has to print: all below a group root, the bare root token
NodesToPrint(m) == IF m.node = "Delimited" THEN PathsBelow(m, <<>>) ELSE {<<>>}

\* all operations of one synthesis run on m, and the text they lay out
SynthEvents(m) ==
    <<cbox(8), word(<<"(">>), zerobreak, ibox(0)>> \o EventsOf(Dispatch(m))
        \o <<end, break_offset_if_not_bol(0, -4), word(<<")">>), end>>

SynthText(m) == s_eof(SynthEvents(m))

Synthesising == pc \in {"synth", "body", "close", "eof"} \/ events # <<>>

\* all five checks of the verifier pass on what the environment answers
VerifierAccepts ==
    /\ IsSome(env.lookup)
    /\ env.new_parser = "ok"
    /\ env.parse = "ok"
    /\ LET r == Lex(Unwrap(env.lookup), env.ed)
       IN  r.ok /\ Len(r.trees) = 1 /\ eq_unspanned(r.trees[1], matcher)

\* C1: when the lookup succeeds and the snippet reparses to exactly one tree
\* equal to the matcher ignoring spans, the synthesis path is never entered, no
\* printer operation is invoked, and the returned string is the snippet unchanged.
C1_VerbatimPreference ==
    VerifierAccepts =>
        /\ ~Synthesising
        /\ pc = "done" => result = env.lookup

\* C1 witness: a group with content returned verbatim, blanks of the source kept
C1_Witness ==
    /\ pc = "done"
    /\ VerifierAccepts
    /\ matcher.node = "Delimited" /\ matcher.tts # <<>>
    /\ result = Some(SourceOf(matcher))
    /\ result # Some(SynthText(matcher))

\* why the verifier answers none, if it does
FailureOutcome ==
    IF ~IsSome(env.lookup) THEN "lookup"
    ELSE IF env.new_parser # "ok" \/ ~Lex(Unwrap(env.lookup), env.ed).ok THEN "new_parser"
    ELSE IF env.parse # "ok" THEN "parse"
    ELSE IF Len(Lex(Unwrap(env.lookup), env.ed).trees) # 1 THEN "count"
    ELSE IF ~eq_unspanned(Lex(Unwrap(env.lookup), env.ed).trees[1], matcher) THEN "mismatch"
    ELSE "accepted"

\* C2: render always returns a string; on each failure outcome of the verifier
\* it is the synthesised string, and it is the snippet only when all five
\* checks pass.
C2_NoErrorSurfaced ==
    pc = "done" =>
        /\ IsSome(result)
        /\ FailureOutcome # "accepted" =>
              result = Some(SynthText(matcher)) /\ events = SynthEvents(matcher) \o <<eof>>
        /\ FailureOutcome = "accepted" => result = env.lookup /\ events = <<>>

\* C2 witness: a snippet that holds two trees, the first equal to the matcher
C2_Witness ==
    /\ pc = "done"
    /\ FailureOutcome = "count"
    /\ Len(Lex(Unwrap(env.lookup), env.ed).trees) = 2
    /\ eq_unspanned(Lex(Unwrap(env.lookup), env.ed).trees[1], matcher)
    /\ result = Some(SynthText(matcher))

\* the other failure outcomes are reached too
C2_ReachesLookup == ~(pc = "done" /\ FailureOutcome = "lookup")
C2_ReachesNewParser == ~(pc = "done" /\ FailureOutcome = "new_parser")
C2_ReachesParse == ~(pc = "done" /\ FailureOutcome = "parse")
C2_ReachesMismatch == ~(pc = "done" /\ FailureOutcome = "mismatch")
C2_ReachesEmpty ==
    ~(pc = "done" /\ FailureOutcome = "count"
        /\ Lex(Unwrap(env.lookup), env.ed).trees = <<>>)

\* print_tt was called once for every node to print, and for nothing else
VisitedOnce ==
    /\ Len(visited) = Cardinality(NodesToPrint(matcher))
    /\ Range(visited) = NodesToPrint(matcher)

\* how far the call has got; the verifier's positions come before the synthesis
Rank(p) ==
    CASE p = "entry" -> 0
      [] p = "new_parser" -> 1
      [] p = "parse" -> 2
      [] p = "check_len" -> 3
      [] p = "compare" -> 4
      [] p = "synth" -> 5
      [] p = "body" -> 6
      [] p = "close" -> 7
      [] p = "eof" -> 8
      [] p = "done" -> 9

\* C3: for any token tree, with or without a usable span, render_macro_matcher
\* terminates: every step moves strictly forward, never back, so a call ends
\* within nine steps; a synthesis has called print_tt once for each node and
\* for nothing else; the returned string is not empty.
C3_FallbackTotality ==
    /\ [][Rank(pc') > Rank(pc)]_vars
    /\ [](pc \in {"close", "eof"} \/ (pc = "done" /\ events # <<>>) => VisitedOnce)
    /\ [](pc = "done" => IsSome(result) /\ Unwrap(result) # <<>>)

\* C3 witness: a synthesis of groups nested two deep has returned
C3_Witness ==
    /\ pc = "done"
    /\ events # <<>>
    /\ \E p \in Range(visited) : Len(p) = 3
    /\ VisitedOnce
    /\ Unwrap(result) # <<>>

\* the output of a synthesis that has returned, re-tokenized
Synthesised == pc = "done" /\ events # <<>>
Retokenized == Lex(Unwrap(result), matcher.span.ed)

\* C4: re-tokenizing a synthesised output yields a single token tree equal,
\* ignoring spans, to the input tree.  Stated for the roots the fixed
\* parentheses of the output reproduce, the parenthesis groups: there the
\* claim asks exactly that no two tokens printed side by side merge.
C4_RoundTrip ==
    Synthesised /\ matcher.node = "Delimited" /\ matcher.delim = "Parenthesis" =>
        /\ Retokenized.ok
        /\ Len(Retokenized.trees) = 1
        /\ eq_unspanned(Retokenized.trees[1], matcher)

\* C5: when a synthesised output re-tokenizes into a token tree, synthesising
\* that tree again yields the same string.
C5_Idempotence ==
    Synthesised /\ Retokenized.ok /\ Len(Retokenized.trees) = 1 =>
        SynthText(Retokenized.trees[1]) = Unwrap(result)

---------------------------------------------------------------------------
(* Properties of the spacing classifier, read off the trace                *)

Idx(path) == path[Len(path)]
Sib(path, k) == [path EXCEPT ![Len(path)] = @ - k]
N(path) == NodeAt(matcher, path)
RecAt(path) == CHOOSE r \in Range(trace) : r.path = path
HasNext(path) == Idx(path) < Len(NodeAt(matcher, SubSeq(path, 1, Len(path) - 1)).tts)

IsKind(n, kinds) == n.node = "Token" /\ n.kind \in kinds
IsGroup(n, delims) == n.node = "Delimited" /\ n.delim \in delims

\* the keywords the policy is said to answer false for
ClaimSpaceFree ==
    {<<"t","r","u","e">>, <<"f","a","l","s","e">>, <<"s","e","l","f">>, <<"S","e","l","f">>,
     <<"f","n">>, <<"p","u","b">>, <<"a","w","a","i","t">>}

\* a keyword, used or unused, that is not one of the seven
ClaimNeedsSpace(sym, span) ==
    (is_used_keyword(sym, span) \/ is_unused_keyword(sym, span)) /\ sym \notin ClaimSpaceFree

\* the node at path p is the second of a tight-binding pair, p1 being the path
\* of the token that starts the pattern: $name, $name:frag, #[..], #![..], f(..), f[..]
TightPair(p, p1) ==
    LET i == Idx(p)
        cur == N(p)
        a == N(Sib(p, 1))
        b == N(Sib(p, 2))
        c == N(Sib(p, 3))
    IN  \/ /\ i > 1 /\ p1 = Sib(p, 1)
           /\ \/ IsKind(a, {"Dollar"}) /\ IsKind(cur, {"Ident"})
              \/ IsKind(a, {"Pound"}) /\ IsGroup(cur, {"Bracket"})
              \/ /\ IsKind(a, {"Pound"}) /\ IsKind(cur, {"Not"})
                 /\ HasNext(p) /\ IsGroup(N(Sib(p, -1)), {"Bracket"})
              \/ /\ IsKind(a, {"Ident"}) /\ ~ClaimNeedsSpace(a.sym, a.span)
                 /\ IsGroup(cur, {"Parenthesis", "Bracket"})
        \/ /\ i > 2 /\ p1 = Sib(p, 2)
           /\ \/ IsKind(b, {"Dollar"}) /\ IsKind(a, {"Ident"}) /\ IsKind(cur, {"Colon"})
              \/ IsKind(b, {"Pound"}) /\ IsKind(a, {"Not"}) /\ IsGroup(cur, {"Bracket"})
        \/ /\ i > 3 /\ p1 = Sib(p, 3)
           /\ IsKind(c, {"Dollar"}) /\ IsKind(b, {"Ident"}) /\ IsKind(a, {"Colon"})
           /\ IsKind(cur, {"Ident"})

PairStarts(p) == {Sib(p, k) : k \in 1..(IF Idx(p) > 3 THEN 3 ELSE Idx(p) - 1)}

OwnRow(p1) ==
    IF IsKind(N(p1), {"Ident"})
    THEN ~N(p1).raw /\ RecAt(p1).state \notin {"Dollar", "DollarIdentColon", "DollarParen"}
    ELSE RecAt(p1).state # "DollarParen"

C7_KeywordPolicy ==
    /\ \A p \in PathsBelow(matcher, <<>>) :
          IsKind(N(p), {"Ident"}) =>
              usually_needs_space_between_keyword_and_open_delim(N(p).sym, N(p).span)
                  = ClaimNeedsSpace(N(p).sym, N(p).span)
    /\ \A r \in Range(trace) :
          /\ Idx(r.path) > 1
          /\ IsGroup(N(r.path), Delimiters)
          /\ IsKind(N(Sib(r.path, 1)), {"Ident"})
          /\ ClaimNeedsSpace(N(Sib(r.path, 1)).sym, N(Sib(r.path, 1)).span)
          => r.space

\* C7 witness: `for (` after an identifier
C7_Witness ==
    /\ pc = "done"
    /\ \E r \in Range(trace) :
          /\ Idx(r.path) > 2
          /\ IsGroup(N(r.path), {"Parenthesis"})
          /\ N(Sib(r.path, 1)) = Id(<<"f","o","r">>, matcher.span.ed)
          /\ RecAt(Sib(r.path, 1)).state = "Ident"
          /\ r.space

CountOp(evs, op) == Cardinality({i \in 1..Len(evs) : evs[i].op = op})

SevenPrimitives ==
    {"cbox", "ibox", "word", "space", "zerobreak", "break_offset_if_not_bol", "end", "eof"}

\* C8 as stated: every printer operation invoked is one of the seven primitives
\* (open a box, word, space, zero-width break, conditional break, close a box,
\* finalize).
C8_SevenPrimitives == \A e \in Range(events) : e.op \in SevenPrimitives

\* the documentation-comment tokens a synthesis prints
DocNodes == {p \in NodesToPrint(matcher) : IsKind(NodeAt(matcher, p), {"DocComment"})}

\* C8 amended: every printer operation invoked is one of the seven primitives
\* or a hard line break, and the hard line break is invoked once per
\* documentation-comment token, right after that token's word.
C8_PrimitivesAndHardbreak ==
    /\ \A i \in 1..Len(events) :
          /\ events[i].op \in SevenPrimitives \cup {"hardbreak"}
          /\ events[i].op = "hardbreak" => i > 1 /\ events[i - 1].op = "word"
    /\ pc \in {"close", "eof"} \/ Synthesised =>
          CountOp(events, "hardbreak") = Cardinality(DocNodes)

\* C8 witness: a synthesis that has used all eight, finalize included
C8_Witness ==
    /\ pc = "done"
    /\ {e.op : e \in Range(events)} = SevenPrimitives \cup {"hardbreak"}

\* the transition table of the classifier as the specification lists it, first
\* matching row first; raw_too: whether its identifier row takes raw identifiers
Row(when, needs_space, next_state) ==
    [when |-> when, give |-> Cls(needs_space, next_state)]

TableRows(state, n, raw_too) ==
    LET tok(kinds) == IsKind(n, kinds)
        grp(delims) == IsGroup(n, delims)
    IN  <<Row(state = "Dollar" /\ tok({"Ident"}), FALSE, "DollarIdent"),
          Row(state = "DollarIdent" /\ tok({"Colon"}), FALSE, "DollarIdentColon"),
          Row(state = "DollarIdentColon" /\ tok({"Ident"}), FALSE, "Other"),
          Row(state = "DollarParen" /\ tok({"BinOpPlus", "BinOpStar", "Question"}),
              FALSE, "Other"),
          Row(state = "DollarParen" /\ n.node = "Token", FALSE, "DollarParenSep"),
          Row(state = "DollarParenSep" /\ tok({"BinOpPlus", "BinOpStar"}), FALSE, "Other"),
          Row(state = "Pound" /\ tok({"Not"}), FALSE, "PoundBang"),
          Row(tok({"Ident"}) /\ (raw_too \/ ~n.raw) /\ ~ClaimNeedsSpace(n.sym, n.span),
              TRUE, "Ident"),
          Row(tok({"Comma", "Semi"}), FALSE, "Other"),
          Row(tok({"Dollar"}), TRUE, "Dollar"),
          Row(tok({"Pound"}), TRUE, "Pound"),
          Row(n.node = "Token", TRUE, "Other"),
          Row(state = "Dollar" /\ grp({"Parenthesis"}), FALSE, "DollarParen"),
          Row(state \in {"Pound", "PoundBang"} /\ grp({"Bracket"}), FALSE, "Other"),
          Row(state = "Ident" /\ grp({"Parenthesis", "Bracket"}), FALSE, "Other"),
          Row(n.node = "Delimited", TRUE, "Other")>>

FirstMatch(rows) == rows[CHOOSE i \in 1..Len(rows) :
                            rows[i].when /\ \A j \in 1..(i - 1) : ~rows[j].when].give

Conforms(raw_too) ==
    \A r \in Range(trace) :
        Cls(r.needs_space, r.next_state) = FirstMatch(TableRows(r.state, N(r.path), raw_too))

BracePads == 2 * Cardinality({p \in PathsBelow(matcher, <<>>) :
                                 IsGroup(N(p), {"Brace"}) /\ N(p).tts # <<>>})

\* C10: in every sibling sequence the state is Start exactly before the first
\* sibling; no transition yields Start; each later sibling is classified from
\* the state its predecessor yielded; and a separator space is emitted before a
\* sibling exactly when it is not the first and needs_space is true.
C10_StartOnlyFirst ==
    /\ \A r \in Range(trace) :
          /\ r.state = "Start" <=> Idx(r.path) = 1
          /\ r.next_state # "Start"
          /\ Idx(r.path) > 1 => r.state = RecAt(Sib(r.path, 1)).next_state
          /\ r.space <=> (Idx(r.path) > 1 /\ r.needs_space)
    /\ pc \in {"close", "eof"} \/ Synthesised =>
          CountOp(events, "space")
              = Cardinality({r \in Range(trace) : Idx(r.path) > 1 /\ r.needs_space})
                  + BracePads

\* C10 witness: a first sibling that needs a space and gets none, followed by
\* a sibling that gets one, and a nested sequence that starts over in Start
C10_Witness ==
    /\ pc = "done"
    /\ \E r \in Range(trace), q \in Range(trace), n \in Range(trace) :
          /\ Idx(r.path) = 1 /\ r.needs_space /\ ~r.space
          /\ q.path = Sib(r.path, -1) /\ q.space
          /\ Len(n.path) = 2 /\ Idx(n.path) = 1 /\ Head(n.path) > 1
          /\ n.state = "Start" /\ n.needs_space /\ ~n.space

\* the words of a comma and of a semicolon
SeparatorWords == {<<",">>, <<";">>}

\* C11: in whatever state a comma or a semicolon is met, needs_space is false
\* and no separator space is emitted right before it (a space right before
\* its word can only be the padding after an opening brace); the next state is
\* Other, except from DollarParen, where it is DollarParenSep.
C11_NoSpaceBeforeSeparators ==
    /\ \A r \in Range(trace) :
          IsKind(N(r.path), {"Comma", "Semi"}) =>
              /\ ~r.needs_space
              /\ ~r.space
              /\ r.next_state = IF r.state = "DollarParen" THEN "DollarParenSep" ELSE "Other"
    /\ \A i \in 2..Len(events) :
          /\ events[i].op = "word" /\ events[i].w \in SeparatorWords
          /\ events[i - 1].op = "space"
          => i > 2 /\ events[i - 2] = word(<<"{">>)

\* C11 witness: a comma taken as repetition separator and, right after it, a
\* semicolon that is not
C11_Witness ==
    /\ pc = "done"
    /\ \E r \in Range(trace), q \in Range(trace) :
          /\ IsKind(N(r.path), {"Comma"}) /\ r.state = "DollarParen"
          /\ r.next_state = "DollarParenSep"
          /\ q.path = Sib(r.path, -1)
          /\ IsKind(N(q.path), {"Semi"}) /\ q.state = "DollarParenSep"
          /\ q.next_state = "Other" /\ ~q.space

\* the sibling k places after the one at path p exists
Has(p, k) == Idx(p) + k <= Len(NodeAt(matcher, SubSeq(p, 1, Len(p) - 1)).tts)

RepOps == {"BinOpPlus", "BinOpStar", "Question"}

\* the path of the repetition operator of the repetition whose `$` is at path
\* d: `$`, a parenthesis group, then an operator, or one separator token and
\* then `+` or `*`; <<>> if no repetition starts at d
RepOpOf(d) ==
    IF ~(IsKind(N(d), {"Dollar"}) /\ Has(d, 2) /\ IsGroup(N(Sib(d, -1)), {"Parenthesis"}))
    THEN <<>>
    ELSE IF IsKind(N(Sib(d, -2)), RepOps) THEN Sib(d, -2)
    ELSE IF /\ N(Sib(d, -2)).node = "Token" /\ Has(d, 3)
            /\ IsKind(N(Sib(d, -3)), {"BinOpPlus", "BinOpStar"})
    THEN Sib(d, -3)
    ELSE <<>>

\* no space inside the repetition that starts at d, and what follows its
\* operator is classified from Other
RepetitionTight(d) ==
    LET op == RepOpOf(d)
    IN  /\ \A k \in 1..(Idx(op) - Idx(d)) : ~RecAt(Sib(d, -k)).space
        /\ RecAt(op).next_state = "Other"
        /\ Has(op, 1) => RecAt(Sib(op, -1)).state = "Other"

\* C12 as stated: wherever `$`, a parenthesis group and a repetition operator,
\* or a separator token and `+` or `*`, follow one another in a sibling
\* sequence, no space is emitted between them and the node after the operator
\* is classified from Other.
C12_RepetitionAnywhere ==
    \A r \in Range(trace) : RepOpOf(r.path) # <<>> => RepetitionTight(r.path)

\* C12 amended: the same, for a `$` that does not directly follow a `$(...)`
\* group, where it is taken as that repetition's separator.
C12_Repetition ==
    \A r \in Range(trace) :
        RepOpOf(r.path) # <<>> /\ r.state # "DollarParen" => RepetitionTight(r.path)

\* C12 witness: `$(..)` with a separator and an operator, after a sibling, and
\* followed by a sibling classified from Other
C12_Witness ==
    /\ pc = "done"
    /\ \E r \in Range(trace) :
          /\ Idx(r.path) > 1 /\ r.state # "DollarParen"
          /\ RepOpOf(r.path) = Sib(r.path, -3)
          /\ IsKind(N(Sib(r.path, -2)), {"Comma"})
          /\ Has(r.path, 4)
          /\ RepetitionTight(r.path)

\* the operations invoked by the dispatch of render_macro_matcher: what lies
\* between the four opening operations and the first closing of a box
Body ==
    LET ends == {i \in 1..Len(events) : events[i].op = "end"}
        last == IF ends = {} THEN Len(events) ELSE (CHOOSE i \in ends : \A j \in ends : i <= j) - 1
    IN  SubSeq(events, 5, last)

IsOpen(e) == \E d \in Delimiters : e = word(OpenDelim(d))
IsClose(e) == \E d \in Delimiters : e = word(CloseDelim(d))
DelimOfWord(e) == CHOOSE d \in Delimiters : e \in {word(OpenDelim(d)), word(CloseDelim(d))}

\* every closing word closes the innermost open group, and has its kind
RECURSIVE Balanced(_, _, _)
Balanced(evs, i, stack) ==
    IF i > Len(evs) THEN stack = <<>>
    ELSE IF IsOpen(evs[i]) THEN Balanced(evs, i + 1, <<DelimOfWord(evs[i])>> \o stack)
    ELSE IF IsClose(evs[i])
    THEN /\ stack # <<>>
         /\ Head(stack) = DelimOfWord(evs[i])
         /\ Balanced(evs, i + 1, Tail(stack))
    ELSE Balanced(evs, i + 1, stack)

\* the groups print_tt is called with
GroupNodes(d) == {p \in PathsBelow(matcher, <<>>) : IsGroup(N(p), {d})}

\* C13: a group is printed as its opening word, its inner sequence and the
\* closing word of the same kind, in this order; a padding space follows the
\* opening word and precedes the closing word exactly for a brace group with a
\* non-empty inner sequence; an empty group is printed as its two words alone.
C13_GroupRendering ==
    pc \in {"close", "eof"} \/ Synthesised =>
        LET b == Body
        IN  /\ Balanced(b, 1, <<>>)
            /\ \A d \in Delimiters :
                  /\ Cardinality({i \in 1..Len(b) : b[i] = word(OpenDelim(d))})
                        = Cardinality(GroupNodes(d))
                  /\ Cardinality({i \in 1..(Len(b) - 1) :
                                     /\ b[i] = word(OpenDelim(d))
                                     /\ b[i + 1] = word(CloseDelim(d))})
                        = Cardinality({p \in GroupNodes(d) : N(p).tts = <<>>})
            /\ \A i \in 1..(Len(b) - 1) :
                  /\ b[i] = word(<<"{">>) /\ b[i + 1] # word(<<"}">>) =>
                        /\ b[i + 1] = space
                        /\ b[i + 2].op = "word" /\ ~IsClose(b[i + 2])
                  /\ IsOpen(b[i]) /\ b[i] # word(<<"{">>) => b[i + 1].op = "word"
            /\ \A i \in 2..Len(b) :
                  /\ b[i] = word(<<"}">>) /\ b[i - 1] # word(<<"{">>) =>
                        /\ b[i - 1] = space
                        /\ b[i - 2].op \in {"word", "hardbreak"} /\ ~IsOpen(b[i - 2])
                  /\ IsClose(b[i]) /\ b[i] # word(<<"}">>) =>
                        b[i - 1].op \in {"word", "hardbreak"}

\* C13 witness: a padded brace group whose inner sequence is an empty
\* parenthesis group, printed as its two words alone
C13_Witness ==
    /\ pc = "done" /\ events # <<>>
    /\ \E i \in 1..(Len(Body) - 5) :
          /\ Body[i] = word(<<"{">>) /\ Body[i + 1] = space
          /\ Body[i + 2] = word(<<"(">>) /\ Body[i + 3] = word(<<")">>)
          /\ Body[i + 4] = space /\ Body[i + 5] = word(<<"}">>)

\* the word of a documentation-comment token of the matcher
IsDocWord(e) ==
    /\ e.op = "word"
    /\ \E p \in DocNodes : e.w = token_to_string(NodeAt(matcher, p))

\* C14: every documentation comment's word is immediately followed by a hard
\* line break, wherever the token sits; no hard break follows anything else;
\* a token after a documentation comment is printed after the break.
C14_DocCommentBreak ==
    /\ \A i \in 1..Len(events) :
          /\ IsDocWord(events[i]) => i < Len(events) /\ events[i + 1] = hardbreak
          /\ events[i] = hardbreak => i > 1 /\ IsDocWord(events[i - 1])
    /\ pc \in {"close", "eof"} \/ Synthesised =>
          Cardinality({i \in 1..Len(events) : IsDocWord(events[i])}) = Cardinality(DocNodes)

\* C14 witness: a documentation comment first in a nested group, its break,
\* then the separator space and the word of the next sibling
C14_Witness ==
    /\ pc = "done"
    /\ \E p \in DocNodes : Len(p) = 3 /\ Idx(p) = 1
    /\ \E i \in 2..(Len(events) - 3) :
          /\ IsOpen(events[i - 1])
          /\ IsDocWord(events[i]) /\ events[i + 1] = hardbreak
          /\ events[i + 2] = space /\ events[i + 3] = word(<<"f">>)

\* boxes open after the first k operations
BoxDepth(evs, k) ==
    Cardinality({i \in 1..k : evs[i].op \in {"cbox", "ibox"}})
        - Cardinality({i \in 1..k : evs[i].op = "end"})

\* C15: a synthesis invokes exactly: cbox(8), word `(`, zerobreak, ibox(0),
\* the body, end, break_offset_if_not_bol(0, -4), word `)`, end, eof; the body
\* opens and closes no box, so two boxes are open throughout the body, the
\* depth is never negative, and it is 0 at finalization.
C15_Framing ==
    /\ \A k \in 0..Len(events) : BoxDepth(events, k) >= 0
    /\ pc \in {"body", "close"} => BoxDepth(events, Len(events)) = 2
    /\ Synthesised =>
          LET n == Len(events)
          IN  /\ n >= 9
              /\ SubSeq(events, 1, 4) = <<cbox(8), word(<<"(">>), zerobreak, ibox(0)>>
              /\ SubSeq(events, 5, n - 5) = EventsOf(Dispatch(matcher))
              /\ SubSeq(events, n - 4, n)
                    = <<end, break_offset_if_not_bol(0, -4), word(<<")">>), end, eof>>
              /\ \A i \in 4..(n - 5) :
                    /\ BoxDepth(events, i) = 2
                    /\ i > 4 => events[i].op \notin {"cbox", "ibox", "end", "eof"}
              /\ BoxDepth(events, n - 1) = 0
              /\ BoxDepth(events, n) = 0

\* C15 witness: a finished synthesis of a root group with nested groups
C15_Witness ==
    /\ pc = "done" /\ events # <<>>
    /\ matcher.node = "Delimited"
    /\ \E p \in PathsBelow(matcher, <<>>) : Len(p) = 2
    /\ Len(events) > 12
    /\ BoxDepth(events, Len(events)) = 0

\* the root with another delimiter kind
WithDelim(m, d) == [m EXCEPT !.delim = d]

\* C16: for a root group only the inner sequence is printed between the fixed
\* parentheses: a root that differs in its delimiter kind alone gives the same
\* operations and the same string, and a brace root gets no padding; a bare
\* root token is printed as that one token between the same parentheses.
C16_RootDispatch ==
    Synthesised =>
        LET n == Len(events)
            body == SubSeq(events, 5, n - 5)
            text == Unwrap(result)
        IN  /\ events[2] = word(<<"(">>) /\ events[n - 2] = word(<<")">>)
            /\ Head(text) = "(" /\ text[Len(text)] = ")"
            /\ matcher.node = "Delimited" =>
                  /\ body = EventsOf(print_tts(matcher.tts, <<>>))
                  /\ body # <<>> =>
                        body[1].op = "word" /\ body[Len(body)].op \in {"word", "hardbreak"}
                  /\ \A d \in Delimiters :
                        /\ SynthEvents(WithDelim(matcher, d)) \o <<eof>> = events
                        /\ SynthText(WithDelim(matcher, d)) = text
            /\ matcher.node = "Token" =>
                  /\ body[1] = word(token_to_string(matcher))
                  /\ Len(body) = IF matcher.kind = "DocComment" THEN 2 ELSE 1

\* C16 witness: a brace root with inner siblings, printed as the parenthesis
\* root with the same siblings is
C16_Witness ==
    /\ pc = "done" /\ events # <<>>
    /\ matcher.node = "Delimited" /\ matcher.delim = "Brace"
    /\ Len(matcher.tts) > 1
    /\ events[5].op = "word"
    /\ Unwrap(result) = SynthText(WithDelim(matcher, "Parenthesis"))

\* the classifications print_tts makes of the siblings of the sequence below
\* the node at path pp, were that sequence tts
SiblingRecords(tts, pp) ==
    {r \in Range(TraceOf(print_tts(tts, pp))) : Len(r.path) = Len(pp) + 1}

\* inner sequences a group could hold instead of its own, ending in the
\* states Start, Dollar, Ident and Other
OtherContents(ed) ==
    {<<>>, <<Punct("Dollar", ed)>>, <<Id(<<"f">>, ed)>>, <<Punct("Comma", ed)>>}

\* C17: the inner sequence of a nested group starts at Start whatever the
\* state of the parent sequence is; the record of the group and the state and
\* spacing of the parent's later siblings are what the parent's prior state and
\* the group's delimiter kind give, whatever the group holds.
C17_StateIsolation ==
    \A r \in Range(trace) :
        /\ Len(r.path) > 1 /\ Idx(r.path) = 1 => r.state = "Start"
        /\ IsGroup(N(r.path), Delimiters) =>
              LET p == r.path
                  pp == SubSeq(p, 1, Len(p) - 1)
                  tts == NodeAt(matcher, pp).tts
              IN  /\ Cls(r.needs_space, r.next_state)
                        = Classify(r.state, Group(N(p).delim, <<>>, matcher.span.ed))
                  /\ Has(p, 1) => RecAt(Sib(p, -1)).state = r.next_state
                  /\ \A other \in OtherContents(matcher.span.ed) :
                        SiblingRecords([tts EXCEPT ![Idx(p)].tts = other], pp)
                            = {q \in Range(trace) :
                                  Len(q.path) = Len(p) /\ SubSeq(q.path, 1, Len(pp)) = pp}

\* C17 witness: a group met in state Dollar whose inner sequence starts at
\* Start and ends in Ident, and whose next sibling is classified from
\* DollarParen
C17_Witness ==
    /\ pc = "done"
    /\ \E r \in Range(trace) :
          /\ IsGroup(N(r.path), {"Parenthesis"}) /\ r.state = "Dollar"
          /\ N(r.path).tts # <<>>
          /\ RecAt(r.path \o <<1>>).state = "Start"
          /\ RecAt(r.path \o <<Len(N(r.path).tts)>>).next_state = "Ident"
          /\ Has(r.path, 1) /\ RecAt(Sib(r.path, -1)).state = "DollarParen"

\* snippet_equal_to_token has returned
VerifierReturned == pc \in {"synth", "body", "close", "eof", "done"}

\* C18: on every exit path of snippet_equal_to_token no diagnostic of the
\* reparse is left pending: those of a failed parser creation are dropped, the
\* one of a failed parse is cancelled, and there is none otherwise; the parser
\* is live only between its creation and the return, and released after.
C18_ResourceRelease ==
    /\ diag # "pending"
    /\ parser = "live" => pc \in {"parse", "check_len", "compare"}
    /\ pc \in {"entry", "new_parser"} => parser = "none" /\ diag = "none"
    /\ VerifierReturned =>
          /\ parser = IF FailureOutcome = "lookup" THEN "none" ELSE "released"
          /\ diag = CASE FailureOutcome = "new_parser" -> "dropped"
                      [] FailureOutcome = "parse" -> "cancelled"
                      [] OTHER -> "none"

\* C18 witness: a reparse that failed in parse_all_token_trees, after the call
C18_Witness ==
    /\ pc = "done"
    /\ FailureOutcome = "parse"
    /\ diag = "cancelled" /\ parser = "released"
    /\ events # <<>>

=============================================================================
